---- MODULE Spec2Model ----
(***************************************************************************)
(* Peg solitaire solver (solitaire.go): move table generation, shuffle,    *)
(* and the reverse recursive backtracking search with the seenBoards set.  *)
(*                                                                         *)
(* A board (uint64) is modelled by the set of the indexes of its set bits; *)
(* no index ever reaches 64, so no shift or OR overflows the word.         *)
(***************************************************************************)
EXTENDS Integers, Sequences, FiniteSets, TLC

\* invoked is a history variable: the arguments of the calls of search, in
\* the order of the calls. loop holds the variables i, m, k of the printing
\* loops and the text line under construction, out the lines written so far
VARIABLES pc, gi, rnd, Moves, Solution, seenBoards, stack, ret, invoked,
          loop, out

vars == <<pc, gi, rnd, Moves, Solution, seenBoards, stack, ret, invoked,
          loop, out>>

----------------------------------------------------------------------------
(* uint64 bit operations on bit-index sets *)

\* 1 << n
Bit(n) == {n}

\* a & b
BitAnd(a, b) == a \cap b

\* a | b
BitOr(a, b) == a \cup b

\* a ^ b
BitXor(a, b) == (a \ b) \cup (b \ a)

\* the uint64 value 0
Zero == {}

----------------------------------------------------------------------------
(* decimal literals: the constants exceed 32 bits, so a literal is kept as *)
(* its digit sequence and converted to bits by repeated halving            *)

HalfDigits(ds) ==
    [k \in 1..Len(ds) |->
        ((IF k > 1 THEN (ds[k-1] % 2) * 10 ELSE 0) + ds[k]) \div 2]

IsZeroDigits(ds) == \A k \in 1..Len(ds) : ds[k] = 0

RECURSIVE DecBitsFrom(_, _)
DecBitsFrom(ds, n) ==
    IF IsZeroDigits(ds) THEN {}
    ELSE (IF ds[Len(ds)] % 2 = 1 THEN {n} ELSE {})
         \cup DecBitsFrom(HalfDigits(ds), n + 1)

DecBits(ds) == DecBitsFrom(ds, 0)

\* const VALID_BOARD_CELLS uint64 = 124141734710812
VALID_BOARD_CELLS == DecBits(<<1,2,4,1,4,1,7,3,4,7,1,0,8,1,2>>)

\* const INITIAL_BOARD uint64 = 124141717933596
INITIAL_BOARD == DecBits(<<1,2,4,1,4,1,7,1,7,9,3,3,5,9,6>>)

\* const GOAL_BOARD uint64 = 16777216
GOAL_BOARD == DecBits(<<1,6,7,7,7,2,1,6>>)

----------------------------------------------------------------------------
(* the variant source writes the three constants as binary strings, one     *)
(* board row per line, and parses them: strconv.ParseUint(s, 2, 64)         *)

\* ParseUint, base 2: the character at position k of a string of length L
\* is the digit of weight 2^(L-k), the first character the most significant
ParseUintBinary(str) ==
    { Len(str) - k : k \in { k \in 1..Len(str) : str[k] = 1 } } \cap 0..63

VALID_BOARD_CELLS_Binary ==
    ParseUintBinary(<<0>> \o
        <<0,0,1,1,1,0,0>> \o
        <<0,0,1,1,1,0,0>> \o
        <<1,1,1,1,1,1,1>> \o
        <<1,1,1,1,1,1,1>> \o
        <<1,1,1,1,1,1,1>> \o
        <<0,0,1,1,1,0,0>> \o
        <<0,0,1,1,1,0,0>>)

INITIAL_BOARD_Binary ==
    ParseUintBinary(<<0>> \o
        <<0,0,1,1,1,0,0>> \o
        <<0,0,1,1,1,0,0>> \o
        <<1,1,1,1,1,1,1>> \o
        <<1,1,1,0,1,1,1>> \o
        <<1,1,1,1,1,1,1>> \o
        <<0,0,1,1,1,0,0>> \o
        <<0,0,1,1,1,0,0>>)

GOAL_BOARD_Binary ==
    ParseUintBinary(<<0>> \o
        <<0,0,0,0,0,0,0>> \o
        <<0,0,0,0,0,0,0>> \o
        <<0,0,0,1,0,0,0>> \o
        <<0,0,0,0,0,0,0>> \o
        <<0,0,0,0,0,0,0>> \o
        <<0,0,0,0,0,0,0>> \o
        <<0,0,0,0,0,0,0>>)

----------------------------------------------------------------------------
(* move table generation *)

\* variant: the start 18 is written 19, a run that wraps from row 2 to row 3
startsX_Wrap == <<2, 9, 14, 15, 16, 17, 19, 21, 22, 23, 24, 25, 28, 29, 30, 31, 32, 37, 44>>

\* variant: the first west-east start is one cell too far west
startsX_OffBoard == <<1, 9, 14, 15, 16, 17, 18, 21, 22, 23, 24, 25, 28, 29, 30, 31, 32, 37, 44>>

startsX == <<2, 9, 14, 15, 16, 17, 18, 21, 22, 23, 24, 25, 28, 29, 30, 31, 32, 37, 44>>

startsY == <<2, 3, 4, 9, 10, 11, 14, 15, 16, 17, 18, 19, 20, 23, 24, 25, 30, 31, 32>>

\* variant: the second record vacates its own landing cell instead of bit1
createMoves_LandingInPair(bit1, bit2, bit3, moves) ==
    LET first  == [after  |-> Bit(bit1),
                   before |-> BitOr(Bit(bit2), Bit(bit3)),
                   all    |-> BitOr(BitOr(Bit(bit1), Bit(bit2)), Bit(bit3))]
        second == [after  |-> Bit(bit3),
                   before |-> BitOr(Bit(bit2), Bit(bit3)),
                   all    |-> BitOr(BitOr(Bit(bit1), Bit(bit2)), Bit(bit3))]
    IN  Append(Append(moves, first), second)

\* variant: the second record keeps the landing cell of the first
createMoves_SameLanding(bit1, bit2, bit3, moves) ==
    LET first  == [after  |-> Bit(bit1),
                   before |-> BitOr(Bit(bit2), Bit(bit3)),
                   all    |-> BitOr(BitOr(Bit(bit1), Bit(bit2)), Bit(bit3))]
        second == [after  |-> Bit(bit1),
                   before |-> BitOr(Bit(bit2), Bit(bit3)),
                   all    |-> BitOr(BitOr(Bit(bit1), Bit(bit2)), Bit(bit3))]
    IN  Append(Append(moves, first), second)

createMoves(bit1, bit2, bit3, moves) ==
    LET first  == [after  |-> Bit(bit1),
                   before |-> BitOr(Bit(bit2), Bit(bit3)),
                   all    |-> BitOr(BitOr(Bit(bit1), Bit(bit2)), Bit(bit3))]
        second == [after  |-> Bit(bit3),
                   before |-> BitOr(Bit(bit2), Bit(bit1)),
                   all    |-> BitOr(BitOr(Bit(bit1), Bit(bit2)), Bit(bit3))]
    IN  Append(Append(moves, first), second)

----------------------------------------------------------------------------
(* rand.Shuffle(len(Moves), swap): Fisher-Yates, for i = n-1 down to 1 a   *)
(* random j in 0..i is drawn and swap(i, j) is called.  Indexes are        *)
(* 1-based here: for i = n down to 2, j = rnd[i] in 1..i.                  *)

\* func(i, j int) { Moves[i], Moves[j] = Moves[j], Moves[i] }
Swap(moves, i, j) ==
    [moves EXCEPT ![i] = moves[j], ![j] = moves[i]]

\* the draws of the random source explored: per run the j drawn for each i.
\* The 76! orders cannot be enumerated; these draws give orders whose search
\* ends within a few thousand loop iterations, with no backtracking (2nd),
\* one failed branch (5th) and 20 to 51 failed branches (the others).
RandomDraws == <<
  <<1, 1, 3, 3, 3, 4, 5, 1, 9, 1, 7, 4, 8, 8, 5, 12, 3, 2, 13, 3, 6, 8, 8,
    23, 12, 2, 7, 21, 24, 20, 30, 14, 27, 2, 3, 4, 5, 7, 8, 9, 12, 13, 14,
    15, 22, 23, 25, 28, 29, 31, 34, 35, 36, 37, 38, 41, 42, 43, 44, 47, 49,
    51, 52, 53, 54, 56, 57, 58, 59, 60, 62, 63, 67, 68, 72, 74>>,
  <<1, 2, 2, 2, 5, 2, 6, 5, 6, 2, 6, 7, 9, 3, 1, 8, 10, 12, 15, 2, 19, 14,
    22, 18, 2, 3, 5, 9, 10, 11, 14, 15, 19, 20, 22, 23, 24, 25, 27, 28, 29,
    30, 31, 36, 37, 39, 41, 42, 43, 44, 46, 47, 48, 49, 51, 52, 53, 54, 55,
    56, 57, 58, 59, 60, 61, 62, 64, 66, 67, 68, 69, 71, 72, 73, 74, 76>>,
  <<1, 1, 2, 2, 3, 1, 7, 4, 9, 9, 3, 11, 5, 3, 13, 11, 3, 10, 8, 15, 6, 3,
    17, 8, 7, 10, 11, 25, 24, 28, 21, 20, 17, 19, 20, 12, 22, 1, 2, 3, 4, 5,
    11, 14, 15, 18, 19, 22, 23, 25, 27, 28, 29, 30, 32, 33, 34, 35, 38, 39,
    41, 48, 51, 52, 53, 54, 55, 57, 59, 60, 61, 69, 70, 72, 73, 74>>,
  <<1, 2, 2, 3, 1, 5, 1, 7, 9, 9, 11, 9, 7, 13, 6, 5, 12, 13, 3, 7, 15, 16,
    16, 18, 18, 15, 4, 11, 26, 26, 7, 1, 2, 3, 4, 5, 8, 9, 16, 17, 19, 20,
    22, 23, 24, 25, 26, 27, 29, 30, 34, 35, 37, 41, 43, 48, 49, 50, 53, 54,
    55, 56, 59, 60, 61, 62, 63, 65, 66, 67, 68, 71, 72, 73, 74, 76>>,
  <<1, 2, 3, 3, 2, 3, 2, 7, 5, 7, 6, 10, 3, 10, 10, 15, 10, 12, 16, 6, 1, 5,
    20, 11, 7, 14, 1, 2, 3, 5, 7, 8, 9, 10, 11, 14, 15, 17, 18, 19, 20, 22,
    23, 24, 25, 27, 28, 29, 32, 33, 34, 35, 36, 38, 39, 41, 43, 48, 51, 52,
    53, 54, 55, 56, 57, 58, 61, 62, 64, 68, 70, 72, 73, 74, 75, 76>>,
  <<1, 2, 3, 4, 4, 3, 6, 4, 8, 9, 9, 3, 6, 7, 14, 1, 7, 2, 19, 2, 1, 14, 3,
    18, 10, 11, 18, 22, 19, 15, 24, 21, 25, 21, 28, 14, 1, 2, 3, 4, 5, 6, 7,
    9, 10, 11, 14, 16, 17, 20, 21, 23, 24, 25, 29, 33, 34, 35, 36, 37, 39,
    41, 43, 45, 46, 47, 48, 54, 55, 60, 61, 64, 66, 69, 74, 76>>
>>

\* number of random streams explored
MaxSeed == 4

\* a second call of search is tried on the entries 2..MaxRerun of Solution
MaxRerun == 6

\* the printing loop is run on Solutions of 1..MaxPrintLen boards
MaxPrintLen == 33

----------------------------------------------------------------------------
(* search(board) *)

\* variant: the landing cell is not tested
Legal_NoLandingTest(move, board) == BitAnd(move.before, board) = Zero

\* (move.before&board) == 0 && (move.after&board) != 0
Legal(move, board) ==
    BitAnd(move.before, board) = Zero /\ BitAnd(move.after, board) # Zero

\* variant: the two vacated cells are set, the landing cell is not cleared
NewBoard_KeepPeg(move, board) == BitOr(board, move.before)

\* newBoard := board ^ move.all
NewBoard(move, board) == BitXor(board, move.all)

\* the innermost active invocation of search
Top == stack[Len(stack)]

Pop(s) == SubSeq(s, 1, Len(s) - 1)

\* a new invocation: the range loop starts at the first move; entry records
\* Solution as it is when the invocation starts, marked whether INITIAL_BOARD
\* is in seenBoards at that moment
Frame(board) ==
    [board |-> board, i |-> 1, entry |-> Solution,
     marked |-> INITIAL_BOARD \in seenBoards]

\* variant: the loop index is not incremented
Advance_Stuck(s) == s

\* variant: the loop leaves out every second entry
Advance_Skip(s) == [s EXCEPT ![Len(s)].i = @ + 2]

\* the range loop of the innermost invocation moves to the next entry
Advance(s) == [s EXCEPT ![Len(s)].i = @ + 1]

----------------------------------------------------------------------------
Init ==
    /\ pc = "genX"
    /\ gi = 1
    /\ rnd \in { RandomDraws[s] : s \in 1..MaxSeed }
    /\ Moves = << >>
    /\ Solution = << >>
    /\ seenBoards = {}
    /\ stack = << >>
    /\ ret = "none"
    /\ invoked = << >>
    /\ loop = [i |-> 0, m |-> 0, k |-> 0, line |-> << >>]
    /\ out = << >>

\* for _, x := range startsX { Moves = createMoves(x, x+1, x+2, Moves) }
GenX ==
    /\ pc = "genX"
    /\ Moves' = createMoves(startsX[gi], startsX[gi] + 1, startsX[gi] + 2, Moves)
    /\ IF gi < Len(startsX)
       THEN gi' = gi + 1 /\ pc' = "genX"
       ELSE gi' = 1 /\ pc' = "genY"
    /\ UNCHANGED <<rnd, Solution, seenBoards, stack, ret, invoked, loop, out>>

\* for _, y := range startsY { Moves = createMoves(y, y+7, y+14, Moves) }
GenY ==
    /\ pc = "genY"
    /\ Moves' = createMoves(startsY[gi], startsY[gi] + 7, startsY[gi] + 14, Moves)
    /\ IF gi < Len(startsY)
       THEN gi' = gi + 1 /\ pc' = "genY"
       ELSE gi' = Len(Moves') /\ pc' = "shuffle"
    /\ UNCHANGED <<rnd, Solution, seenBoards, stack, ret, invoked, loop, out>>

\* rand.Shuffle(len(Moves), swap): one draw and one call of swap
DoShuffle ==
    /\ pc = "shuffle"
    /\ Moves' = Swap(Moves, gi, rnd[gi])
    /\ IF gi > 2
       THEN gi' = gi - 1 /\ pc' = "shuffle"
       ELSE gi' = 1 /\ pc' = "seed"
    /\ UNCHANGED <<rnd, Solution, seenBoards, stack, ret, invoked, loop, out>>

\* variant: the starting board is not added before the search
SeedSolution_Omitted ==
    /\ pc = "seed"
    /\ pc' = "call"
    /\ UNCHANGED <<gi, rnd, Moves, Solution, seenBoards, stack, ret, invoked, loop, out>>

\* Solution = append(Solution, INITIAL_BOARD)
SeedSolution ==
    /\ pc = "seed"
    /\ Solution' = Append(Solution, INITIAL_BOARD)
    /\ pc' = "call"
    /\ UNCHANGED <<gi, rnd, Moves, seenBoards, stack, ret, invoked, loop, out>>

\* search(GOAL_BOARD)
CallSearch ==
    /\ pc = "call"
    /\ stack' = <<Frame(GOAL_BOARD)>>
    /\ invoked' = Append(invoked, GOAL_BOARD)
    /\ pc' = "search"
    /\ UNCHANGED <<gi, rnd, Moves, Solution, seenBoards, ret, loop, out>>

Running == pc = "search" /\ ret = "none" /\ stack # << >> /\ Top.i <= Len(Moves)

\* the legality test fails: next move
SearchIllegal ==
    /\ Running
    /\ ~Legal(Moves[Top.i], Top.board)
    /\ stack' = Advance(stack)
    /\ UNCHANGED <<pc, gi, rnd, Moves, Solution, seenBoards, ret, invoked, loop, out>>

\* variant: a board that is already in seenBoards is searched again
SearchSeen_Reenter ==
    /\ pc = "search" /\ ret = "none" /\ stack # << >> /\ Top.i <= Len(Moves)
    /\ Legal(Moves[Top.i], Top.board)
    /\ LET newBoard == NewBoard(Moves[Top.i], Top.board)
       IN  /\ newBoard \in seenBoards
           /\ stack' = Append(stack, Frame(newBoard))
           /\ invoked' = Append(invoked, newBoard)
    /\ UNCHANGED <<pc, gi, rnd, Moves, Solution, seenBoards, ret, loop, out>>

\* seenBoards[newBoard] is set: next move
SearchSeen ==
    /\ Running
    /\ Legal(Moves[Top.i], Top.board)
    /\ NewBoard(Moves[Top.i], Top.board) \in seenBoards
    /\ stack' = Advance(stack)
    /\ UNCHANGED <<pc, gi, rnd, Moves, Solution, seenBoards, ret, invoked, loop, out>>

\* variant: the comparison with INITIAL_BOARD comes before the look-up in
\* seenBoards
SearchFound_BeforeSeen ==
    /\ pc = "search" /\ ret = "none" /\ stack # << >> /\ Top.i <= Len(Moves)
    /\ Legal(Moves[Top.i], Top.board)
    /\ LET newBoard == NewBoard(Moves[Top.i], Top.board)
       IN  /\ newBoard = INITIAL_BOARD
           /\ seenBoards' = seenBoards \cup {newBoard}
    /\ Solution' = Append(Solution, Top.board)
    /\ stack' = Pop(stack)
    /\ ret' = "true"
    /\ UNCHANGED <<pc, gi, rnd, Moves, invoked, loop, out>>

\* variant: reaching the initial board returns true without recording board
SearchFound_NoAppend ==
    /\ pc = "search" /\ ret = "none" /\ stack # << >> /\ Top.i <= Len(Moves)
    /\ Legal(Moves[Top.i], Top.board)
    /\ LET newBoard == NewBoard(Moves[Top.i], Top.board)
       IN  /\ newBoard \notin seenBoards
           /\ newBoard = INITIAL_BOARD
           /\ seenBoards' = seenBoards \cup {newBoard}
    /\ stack' = Pop(stack)
    /\ ret' = "true"
    /\ UNCHANGED <<pc, gi, rnd, Moves, Solution, invoked, loop, out>>

\* variant: the comparison with INITIAL_BOARD is missing; the board is marked
\* and the loop goes on
SearchFound_Missed ==
    /\ pc = "search" /\ ret = "none" /\ stack # << >> /\ Top.i <= Len(Moves)
    /\ Legal(Moves[Top.i], Top.board)
    /\ LET newBoard == NewBoard(Moves[Top.i], Top.board)
       IN  /\ newBoard \notin seenBoards
           /\ newBoard = INITIAL_BOARD
           /\ seenBoards' = seenBoards \cup {newBoard}
    /\ stack' = Advance(stack)
    /\ UNCHANGED <<pc, gi, rnd, Moves, Solution, ret, invoked, loop, out>>

\* newBoard == INITIAL_BOARD: append board, return true
SearchFound ==
    /\ Running
    /\ Legal(Moves[Top.i], Top.board)
    /\ LET newBoard == NewBoard(Moves[Top.i], Top.board)
       IN  /\ newBoard \notin seenBoards
           /\ newBoard = INITIAL_BOARD
           /\ seenBoards' = seenBoards \cup {newBoard}
    /\ Solution' = Append(Solution, Top.board)
    /\ stack' = Pop(stack)
    /\ ret' = "true"
    /\ UNCHANGED <<pc, gi, rnd, Moves, invoked, loop, out>>

\* variant: board is recorded on the way down, before the recursive call
SearchRecurse_EagerAppend ==
    /\ pc = "search" /\ ret = "none" /\ stack # << >> /\ Top.i <= Len(Moves)
    /\ Legal(Moves[Top.i], Top.board)
    /\ LET newBoard == NewBoard(Moves[Top.i], Top.board)
       IN  /\ newBoard \notin seenBoards
           /\ newBoard # INITIAL_BOARD
           /\ seenBoards' = seenBoards \cup {newBoard}
           /\ Solution' = Append(Solution, Top.board)
           /\ stack' = Append(stack, Frame(newBoard))
           /\ invoked' = Append(invoked, newBoard)
    /\ UNCHANGED <<pc, gi, rnd, Moves, ret, loop, out>>

\* newBoard is new and not the initial board: search(newBoard)
SearchRecurse ==
    /\ Running
    /\ Legal(Moves[Top.i], Top.board)
    /\ LET newBoard == NewBoard(Moves[Top.i], Top.board)
       IN  /\ newBoard \notin seenBoards
           /\ newBoard # INITIAL_BOARD
           /\ seenBoards' = seenBoards \cup {newBoard}
           /\ stack' = Append(stack, Frame(newBoard))
           /\ invoked' = Append(invoked, newBoard)
    /\ UNCHANGED <<pc, gi, rnd, Moves, Solution, ret, loop, out>>

\* variant: board is recorded before the unsuccessful return as well
SearchExhausted_Append ==
    /\ pc = "search" /\ ret = "none" /\ stack # << >>
    /\ Top.i > Len(Moves)
    /\ Solution' = Append(Solution, Top.board)
    /\ stack' = Pop(stack)
    /\ ret' = "false"
    /\ UNCHANGED <<pc, gi, rnd, Moves, seenBoards, invoked, loop, out>>

\* the range loop is over: return false
SearchExhausted ==
    /\ pc = "search" /\ ret = "none" /\ stack # << >>
    /\ Top.i > Len(Moves)
    /\ stack' = Pop(stack)
    /\ ret' = "false"
    /\ UNCHANGED <<pc, gi, rnd, Moves, Solution, seenBoards, invoked, loop, out>>

\* variant: a successful recursive call returns true without recording board
SearchChildTrue_NoAppend ==
    /\ pc = "search" /\ ret = "true" /\ stack # << >>
    /\ stack' = Pop(stack)
    /\ UNCHANGED <<pc, gi, rnd, Moves, Solution, seenBoards, ret, invoked, loop, out>>

\* search(newBoard) returned true to its caller: append board, return true
SearchChildTrue ==
    /\ pc = "search" /\ ret = "true" /\ stack # << >>
    /\ Solution' = Append(Solution, Top.board)
    /\ stack' = Pop(stack)
    /\ UNCHANGED <<pc, gi, rnd, Moves, seenBoards, ret, invoked, loop, out>>

\* variant: the result of the recursive call is returned as it is, so the
\* first failing branch ends the loop
SearchChildFalse_GiveUp ==
    /\ pc = "search" /\ ret = "false" /\ stack # << >>
    /\ stack' = Pop(stack)
    /\ UNCHANGED <<pc, gi, rnd, Moves, Solution, seenBoards, ret, invoked, loop, out>>

\* variant: a move whose recursive call failed is exchanged with the last
\* move of the table
SearchChildFalse_Demote ==
    /\ pc = "search" /\ ret = "false" /\ stack # << >>
    /\ Moves' = Swap(Moves, Top.i, Len(Moves))
    /\ stack' = Advance(stack)
    /\ ret' = "none"
    /\ UNCHANGED <<pc, gi, rnd, Solution, seenBoards, invoked, loop, out>>

\* search(newBoard) returned false to its caller: next move
SearchChildFalse ==
    /\ pc = "search" /\ ret = "false" /\ stack # << >>
    /\ stack' = Advance(stack)
    /\ ret' = "none"
    /\ UNCHANGED <<pc, gi, rnd, Moves, Solution, seenBoards, invoked, loop, out>>

\* search(GOAL_BOARD) returned to main, which drops the result and goes on
\* to print Solution
MainReturn ==
    /\ pc = "search" /\ ret # "none" /\ stack = << >>
    /\ pc' = "print"
    /\ UNCHANGED <<gi, rnd, Moves, Solution, seenBoards, stack, ret, invoked, loop, out>>

----------------------------------------------------------------------------
(* the printing loop of main; PrintSolution in the variant with highlighting *)

\* printLine(board, line): the seven characters of row line, " " for a cell
\* outside VALID_BOARD_CELLS, "X" for a peg, "0" for an empty hole
PrintLineText(board, line) ==
    [c \in 1..7 |->
        LET cell == Bit(7 * line + c - 1)
        IN  IF BitAnd(cell, VALID_BOARD_CELLS) = Zero THEN " "
            ELSE IF BitAnd(cell, board) # Zero THEN "X" ELSE "0"]

\* printLine(board, prev_board, line) of the variant: the valid cells of the
\* row whose colour marks a change, a peg that prev_board lacks or a hole
\* where prev_board has a peg
PrintLineChanged(board, prev_board, line) ==
    { c \in 7 * line .. 7 * line + 6 :
        /\ BitAnd(Bit(c), VALID_BOARD_CELLS) # Zero
        /\ (BitAnd(Bit(c), board) # Zero) # (BitAnd(Bit(c), prev_board) # Zero) }

\* previous := i + k - 1; if previous < 0 { previous = 0 }
Previous(idx) == IF idx - 1 < 0 THEN 0 ELSE idx - 1

\* what one call of printLine for Solution[idx] (0-based) and row line writes
Printed(idx, line) ==
    [idx |-> idx, prev |-> Previous(idx), line |-> line,
     text |-> PrintLineText(Solution[idx + 1], line),
     changed |-> PrintLineChanged(Solution[idx + 1],
                                  Solution[Previous(idx) + 1], line)]

\* fmt.Println("-------------")
RuleLine == [kind |-> "rule", cells |-> << >>]

\* variant: the index is advanced by k, the step back by one is missing
PrintGroupEnd_SkipOne ==
    /\ pc = "row"
    /\ loop.m >= 7
    /\ loop' = [loop EXCEPT !.i = loop.i + loop.k + 1]
    /\ out' = Append(out, RuleLine)
    /\ pc' = "print"
    /\ UNCHANGED <<gi, rnd, Moves, Solution, seenBoards, stack, ret, invoked>>

\* for i ...; i < len(Solution): a new group of boards; var k int
PrintGroup ==
    /\ pc = "print"
    /\ loop.i < Len(Solution)
    /\ loop' = [loop EXCEPT !.m = 0, !.k = 0]
    /\ pc' = "row"
    /\ UNCHANGED <<gi, rnd, Moves, Solution, seenBoards, stack, ret, invoked, out>>

\* i < len(Solution) fails: main returns
PrintDone ==
    /\ pc = "print"
    /\ loop.i >= Len(Solution)
    /\ pc' = "done"
    /\ UNCHANGED <<gi, rnd, Moves, Solution, seenBoards, stack, ret, invoked,
                   loop, out>>

\* m < 7: the next row of the group; for k = 0
PrintRow ==
    /\ pc = "row"
    /\ loop.m < 7
    /\ loop' = [loop EXCEPT !.k = 0]
    /\ pc' = "cell"
    /\ UNCHANGED <<gi, rnd, Moves, Solution, seenBoards, stack, ret, invoked, out>>

\* m < 7 fails: i = i + k - 1, the rule is written, and i++ of the for clause
PrintGroupEnd ==
    /\ pc = "row"
    /\ loop.m >= 7
    /\ loop' = [loop EXCEPT !.i = (loop.i + loop.k - 1) + 1]
    /\ out' = Append(out, RuleLine)
    /\ pc' = "print"
    /\ UNCHANGED <<gi, rnd, Moves, Solution, seenBoards, stack, ret, invoked>>

\* k < 16 and the board is not the last one: printLine(Solution[i+k], m),
\* the separator, k++. An index past the end of Solution is a run-time panic
PrintBoard ==
    /\ pc = "cell"
    /\ loop.k < 16
    /\ loop.i + loop.k # Len(Solution) - 1
    /\ IF loop.i + loop.k >= Len(Solution)
       THEN pc' = "panic" /\ loop' = loop
       ELSE /\ loop' = [loop EXCEPT
                           !.line = Append(@, Printed(loop.i + loop.k, loop.m)),
                           !.k = @ + 1]
            /\ pc' = "cell"
    /\ UNCHANGED <<gi, rnd, Moves, Solution, seenBoards, stack, ret, invoked, out>>

\* k < 16 and i + k == len(Solution)-1: printLine, k++, break, Println, m++
PrintLastBoard ==
    /\ pc = "cell"
    /\ loop.k < 16
    /\ loop.i + loop.k = Len(Solution) - 1
    /\ out' = Append(out, [kind |-> "row",
                           cells |-> Append(loop.line,
                                            Printed(loop.i + loop.k, loop.m))])
    /\ loop' = [loop EXCEPT !.line = << >>, !.k = @ + 1, !.m = @ + 1]
    /\ pc' = "row"
    /\ UNCHANGED <<gi, rnd, Moves, Solution, seenBoards, stack, ret, invoked>>

\* k < 16 fails: Println, m++
PrintRowEnd ==
    /\ pc = "cell"
    /\ loop.k >= 16
    /\ out' = Append(out, [kind |-> "row", cells |-> loop.line])
    /\ loop' = [loop EXCEPT !.line = << >>, !.m = @ + 1]
    /\ pc' = "row"
    /\ UNCHANGED <<gi, rnd, Moves, Solution, seenBoards, stack, ret, invoked>>

NextPrint ==
    \/ PrintGroup
    \/ PrintDone
    \/ PrintRow
    \/ PrintGroupEnd
    \/ PrintBoard
    \/ PrintLastBoard
    \/ PrintRowEnd

Next ==
    \/ GenX
    \/ GenY
    \/ DoShuffle
    \/ SeedSolution
    \/ CallSearch
    \/ SearchIllegal
    \/ SearchSeen
    \/ SearchFound
    \/ SearchRecurse
    \/ SearchExhausted
    \/ SearchChildTrue
    \/ SearchChildFalse
    \/ MainReturn
    \/ NextPrint

Spec == Init /\ [][Next]_vars

\* the program is a single thread that runs on until main is done
FairSpec == Spec /\ WF_vars(Next)

\* search is called a second time in the same process after the first call
\* has succeeded; seenBoards and Solution are the package variables the
\* first call left behind. The argument is one of the boards of Solution
RerunSearch ==
    /\ pc = "print" /\ ret = "true"
    /\ out = << >>
    /\ \E k \in 2..MaxRerun :
          /\ k <= Len(Solution)
          /\ stack' = <<Frame(Solution[k])>>
          /\ invoked' = Append(invoked, Solution[k])
    /\ pc' = "search"
    /\ ret' = "none"
    /\ UNCHANGED <<gi, rnd, Moves, Solution, seenBoards, loop, out>>

NextRerun == Next \/ RerunSearch

SpecRerun == Init /\ [][NextRerun]_vars /\ WF_vars(NextRerun)

\* a Solution of n boards for the printing loop: INITIAL_BOARD first, each
\* further board one peg less
PrintInput(n) ==
    [j \in 1..n |->
        { c \in INITIAL_BOARD :
            Cardinality({ d \in INITIAL_BOARD : d < c }) >= j - 1 }]

\* the printing loop on its own: search has returned, Solution holds n
\* boards (1 after an exhausted search) and the loop is about to start. The
\* loop reads Solution and VALID_BOARD_CELLS only; the variables it does not
\* read are left at their initial values
InitPrint ==
    /\ pc = "print"
    /\ gi = 1
    /\ rnd = RandomDraws[1]
    /\ Moves = << >>
    /\ \E n \in 1..MaxPrintLen : Solution = PrintInput(n)
    /\ seenBoards = {}
    /\ stack = << >>
    /\ ret = "none"
    /\ invoked = << >>
    /\ loop = [i |-> 0, m |-> 0, k |-> 0, line |-> << >>]
    /\ out = << >>

\* sequential code: the loop runs on until main returns
SpecPrint == InitPrint /\ [][NextPrint]_vars /\ WF_vars(NextPrint)

----------------------------------------------------------------------------
(* properties *)

\* the top-level search(GOAL_BOARD) has returned
TopReturned == stack = << >> /\ ret # "none"

\* the top-level search(GOAL_BOARD) has returned true
TopTrue == stack = << >> /\ ret = "true"

\* number of pegs on a board
Pegs(board) == Cardinality(board)

\* prev -> next is a forward jump of some move of the table: both cells of
\* before hold a peg in prev, the cell after is empty in prev, and exactly the
\* three cells of all are toggled
LegalJump(prev, next) ==
    \E k \in 1..Len(Moves) :
        LET m == Moves[k]
        IN  /\ BitAnd(m.before, prev) = m.before
            /\ BitAnd(m.after, prev) = Zero
            /\ next = BitXor(prev, m.all)
            /\ BitXor(prev, next) = m.all
            /\ Cardinality(BitXor(prev, next)) = 3

\* C1: once the top-level search has returned true, every consecutive pair of
\* Solution is a legal forward jump of a move of the table and differs in
\* exactly the three bits of that move's all mask
C1_EveryStepLegalJump ==
    TopTrue =>
        \A k \in 1..(Len(Solution) - 1) : LegalJump(Solution[k], Solution[k+1])

C1_Witness ==
    TopTrue /\ Len(Solution) > 2 /\ LegalJump(Solution[1], Solution[2])

\* C2: once the top-level search has returned true, Solution starts with
\* INITIAL_BOARD and ends with GOAL_BOARD
C2_InitialFirstGoalLast ==
    TopTrue =>
        /\ Len(Solution) >= 2
        /\ Solution[1] = INITIAL_BOARD
        /\ Solution[Len(Solution)] = GOAL_BOARD

C2_Witness ==
    pc = "print" /\ ret = "true" /\ Solution[Len(Solution)] = GOAL_BOARD

\* C3: once the top-level search has returned true, Solution has 32 entries
\* and the entry at 0-based index k holds 32-k pegs (32 down to 1)
C3_ThirtyTwoBoardsOnePegLess ==
    TopTrue =>
        /\ Len(Solution) = 32
        /\ \A k \in 1..Len(Solution) : Pegs(Solution[k]) = 33 - k

C3_Witness ==
    TopTrue /\ Len(Solution) = 32 /\ Pegs(Solution[32]) = 1

\* C4: for every ordering of the move table explored, the top-level search
\* returns true, never false
C4_NeverExhausted == TopReturned => ret = "true"

C4_Witness ==
    pc = "print" /\ ret = "true" /\ INITIAL_BOARD \in seenBoards

\* C5: the search terminates, and every recursive call is made on a board
\* that was not in seenBoards before the call and is in it at the call
C5_SearchTerminates ==
    /\ <>(pc = "print")
    /\ [][Len(stack') > Len(stack) /\ stack # << >> =>
            /\ stack'[Len(stack')].board \notin seenBoards
            /\ stack'[Len(stack')].board \in seenBoards']_vars

C5_Witness ==
    pc = "print" /\ stack = << >> /\ Cardinality(seenBoards) > 31

\* C7: when an invocation of search returns false, Solution is what it was
\* when that invocation started; after a false top-level return Solution is
\* [INITIAL_BOARD]
C7_FalseReturnKeepsSolution ==
    [][(ret = "none" /\ ret' = "false" /\ stack # << >>) =>
            /\ Solution' = Top.entry
            /\ (stack' = << >> => Solution' = <<INITIAL_BOARD>>)]_vars

C7_Witness ==
    ret = "false" /\ stack # << >> /\ Solution = <<INITIAL_BOARD>>

\* C8: every board that is an argument of search, an entry of seenBoards or
\* an entry of Solution has pegs on valid cells only
OnBoard(board) == BitAnd(board, VALID_BOARD_CELLS) = board

C8_PegsOnValidCells ==
    /\ \A k \in 1..Len(stack) : OnBoard(stack[k].board)
    /\ \A b \in seenBoards : OnBoard(b)
    /\ \A k \in 1..Len(Solution) : OnBoard(Solution[k])

C8_Witness ==
    /\ Len(stack) > 20
    /\ Cardinality(seenBoards) > 40
    /\ OnBoard(Top.board)

\* the two records of the run bit1, bit2, bit3
RunRecords(bit1, bit2, bit3) ==
    { [after |-> {bit1}, before |-> {bit2, bit3}, all |-> {bit1, bit2, bit3}],
      [after |-> {bit3}, before |-> {bit1, bit2}, all |-> {bit1, bit2, bit3}] }

MoveSet == { Moves[k] : k \in 1..Len(Moves) }

\* C10: after generation the table holds 76 pairwise distinct records, for
\* each of the 19 horizontal and 19 vertical start positions exactly the two
\* records of its run, one per jump direction, with the same all mask
C10_SeventySixDistinctMoves ==
    pc \notin {"genX", "genY"} =>
        /\ Len(Moves) = 76
        /\ Len(startsX) = 19 /\ Len(startsY) = 19
        /\ \A i, j \in 1..Len(Moves) : i # j => Moves[i] # Moves[j]
        /\ \A k \in 1..Len(startsX) :
              LET x == startsX[k]
              IN  { m \in MoveSet : m.all = {x, x + 1, x + 2} }
                    = RunRecords(x, x + 1, x + 2)
        /\ \A k \in 1..Len(startsY) :
              LET y == startsY[k]
              IN  { m \in MoveSet : m.all = {y, y + 7, y + 14} }
                    = RunRecords(y, y + 7, y + 14)
        /\ \A m \in MoveSet :
              \/ \E k \in 1..Len(startsX) :
                    m.all = {startsX[k], startsX[k] + 1, startsX[k] + 2}
              \/ \E k \in 1..Len(startsY) :
                    m.all = {startsY[k], startsY[k] + 7, startsY[k] + 14}

C10_Witness ==
    pc = "shuffle" /\ gi = Len(Moves) /\ Len(Moves) = 76 /\ Moves[1].after = {2}

\* C11: every generated Move record has one bit in after, two bits in before,
\* no bit in both, and all is the three-bit union of after and before
C11_MoveMasksWellFormed ==
    \A k \in 1..Len(Moves) :
        /\ Cardinality(Moves[k].after) = 1
        /\ Cardinality(Moves[k].before) = 2
        /\ BitAnd(Moves[k].after, Moves[k].before) = Zero
        /\ Moves[k].all = BitOr(Moves[k].after, Moves[k].before)
        /\ Cardinality(Moves[k].all) = 3

C11_Witness ==
    /\ pc = "genY" /\ gi = 2
    /\ Len(Moves) = 40
    /\ Moves[40].after = {16} /\ Moves[40].before = {2, 9}

\* bit index = row*7 + col
CellRow(c) == c \div 7

CellCol(c) == c % 7

\* the runs of three adjacent cells of one row, all three playable
HorizontalRuns ==
    { {c, c + 1, c + 2} :
        c \in { c \in 0..48 : /\ CellCol(c) + 2 <= 6
                               /\ {c, c + 1, c + 2} \subseteq VALID_BOARD_CELLS } }

\* the runs of three adjacent cells of one column, all three playable
VerticalRuns ==
    { {c, c + 7, c + 14} :
        c \in { c \in 0..48 : /\ CellRow(c) + 2 <= 6
                               /\ {c, c + 7, c + 14} \subseteq VALID_BOARD_CELLS } }

\* C12: the masks of the generated moves are exactly the runs of three
\* adjacent playable cells of a row (no wrap) or a column: startsX gives the
\* horizontal runs, startsY the vertical ones, none is missing, none is extra
C12_StartListsMatchGeometry ==
    /\ { Moves[k].all : k \in 1..Len(Moves) } \subseteq HorizontalRuns \cup VerticalRuns
    /\ pc \notin {"genX", "genY"} =>
          /\ { Moves[k].all : k \in 1..Len(Moves) } = HorizontalRuns \cup VerticalRuns
          /\ { {startsX[k], startsX[k] + 1, startsX[k] + 2} : k \in 1..Len(startsX) }
                = HorizontalRuns
          /\ { {startsY[k], startsY[k] + 7, startsY[k] + 14} : k \in 1..Len(startsY) }
                = VerticalRuns

C12_Witness ==
    /\ pc = "shuffle"
    /\ Cardinality({ Moves[k].all : k \in 1..Len(Moves) }) = 38
    /\ {18, 19, 20} \in HorizontalRuns
    /\ {19, 20, 21} \notin HorizontalRuns

\* the 33 cells of the cross: rows 0, 1, 5, 6 columns 2..4, rows 2..4 all columns
Cross ==
    { r * 7 + c : r \in {0, 1, 5, 6}, c \in 2..4 } \cup { r * 7 + c : r \in 2..4, c \in 0..6 }

\* C13: VALID_BOARD_CELLS has exactly the 33 bits of the cross, INITIAL_BOARD
\* is VALID_BOARD_CELLS without the centre bit 24, GOAL_BOARD is bit 24 alone,
\* and the binary strings of the variant source parse to the same three values.
\* The last conjunct fails: the goal string of the variant source has its 1
\* in the third of the seven rows, which is bit 31 (row 4, column 3).
C13_BoardConstants ==
    /\ stack # << >> => stack[1].board = {24}
    /\ Solution # << >> => Solution[1] = Cross \ {24}
    /\ VALID_BOARD_CELLS = Cross
    /\ Cardinality(VALID_BOARD_CELLS) = 33
    /\ INITIAL_BOARD = VALID_BOARD_CELLS \ {24}
    /\ 24 \in VALID_BOARD_CELLS
    /\ GOAL_BOARD = {24}
    /\ VALID_BOARD_CELLS_Binary = VALID_BOARD_CELLS
    /\ INITIAL_BOARD_Binary = INITIAL_BOARD
    /\ GOAL_BOARD_Binary = GOAL_BOARD

\* the boards one legal reverse move away from board: the landing cell of the
\* move holds a peg, its two other cells are empty; the peg is taken back and
\* the two cells are filled
ReverseStep(board) ==
    { (board \ m.after) \cup m.before :
        m \in { m \in MoveSet : m.after \subseteq board /\ m.before \cap board = {} } }

RECURSIVE ReverseClosure(_, _)
\* all boards reachable from acc by legal reverse moves; frontier is the part
\* of acc whose successors were not added yet
ReverseClosure(frontier, acc) ==
    IF frontier = {}
    THEN acc
    ELSE LET next == (UNION { ReverseStep(b) : b \in frontier }) \ acc
         IN  ReverseClosure(next, acc \cup next)

ReverseReachable(board) == ReverseClosure({board}, {board})

\* C14: when an invocation search(b) returns false, INITIAL_BOARD is not
\* reachable from b by legal reverse moves; and when the top-level search has
\* returned true, Solution read backwards is a path of legal reverse moves
\* from GOAL_BOARD to INITIAL_BOARD
C14_PruningSound ==
    /\ [][(ret = "none" /\ ret' = "false" /\ stack # << >>) =>
              INITIAL_BOARD \notin ReverseReachable(Top.board)]_vars
    /\ [](TopTrue =>
              /\ Solution[Len(Solution)] = GOAL_BOARD
              /\ Solution[1] = INITIAL_BOARD
              /\ \A k \in 1..(Len(Solution) - 1) :
                    Solution[k] \in ReverseStep(Solution[k+1]))

\* a recursive call has just returned false for a board that has legal
\* reverse moves, none of them leading to INITIAL_BOARD
C14_Witness ==
    /\ ret = "false" /\ stack # << >>
    /\ LET b == NewBoard(Moves[Top.i], Top.board)
       IN  /\ Cardinality(ReverseReachable(b)) > 2
           /\ INITIAL_BOARD \notin ReverseReachable(b)

\* C15: search is called at most once per board: no board occurs twice among
\* the arguments of the calls, every argument but the first (GOAL_BOARD) is in
\* seenBoards from its call on and was not in it before, GOAL_BOARD is never
\* in seenBoards and never the result of a legal move
C15_SearchedAtMostOnce ==
    /\ [](/\ \A i, j \in 1..Len(invoked) : i # j => invoked[i] # invoked[j]
          /\ \A k \in 2..Len(invoked) :
                invoked[k] \in seenBoards /\ invoked[k] # GOAL_BOARD
          /\ \A k \in 2..Len(stack) : stack[k].board \in seenBoards
          /\ GOAL_BOARD \notin seenBoards
          /\ (Running /\ Legal(Moves[Top.i], Top.board)) =>
                NewBoard(Moves[Top.i], Top.board) # GOAL_BOARD)
    /\ [][/\ seenBoards \subseteq seenBoards'
          /\ (Len(invoked') > Len(invoked) /\ invoked # << >>) =>
                /\ invoked'[Len(invoked')] \notin seenBoards
                /\ invoked'[Len(invoked')] \in seenBoards']_vars

\* many calls were made and the move under test leads to a board that is
\* already in seenBoards
C15_Witness ==
    /\ Running
    /\ Len(invoked) > 40
    /\ Legal(Moves[Top.i], Top.board)
    /\ NewBoard(Moves[Top.i], Top.board) \in seenBoards

\* C16: a call of search appends its own argument, and nothing else, exactly
\* when it returns true, and leaves Solution alone when it returns false;
\* Solution changes only by the caller's first append of INITIAL_BOARD and by
\* the appends of returning calls after INITIAL_BOARD was reached, the callee
\* before its caller; INITIAL_BOARD is never appended by search
C16_AppendOnTrueReturnOnly ==
    /\ [][/\ (Len(stack') < Len(stack) /\ ret' = "true") =>
                /\ Solution' = Append(Solution, Top.board)
                /\ Len(stack') = Len(stack) - 1
                /\ INITIAL_BOARD \in seenBoards'
                /\ Top.board # INITIAL_BOARD
          /\ (Len(stack') < Len(stack) /\ ret' = "false") =>
                Solution' = Solution /\ Solution' = Top.entry
          /\ Solution' # Solution =>
                \/ pc = "seed" /\ Solution = << >> /\ Solution' = <<INITIAL_BOARD>>
                \/ pc = "search" /\ Len(stack') < Len(stack) /\ ret' = "true"
          /\ ret = "true" => ret' = "true" /\ Len(stack') <= Len(stack)]_vars
    /\ []((ret = "true" /\ stack # << >>) =>
              /\ Solution[Len(Solution)] = NewBoard(Moves[Top.i], Top.board)
              /\ Len(Solution) = 32 - Len(stack)
              /\ \A k \in 2..Len(Solution) : Solution[k] # INITIAL_BOARD)

\* the stack is unwinding: ten calls are still open, the others have appended
\* their boards
C16_Witness ==
    /\ ret = "true" /\ Len(stack) = 10
    /\ Len(Solution) = 22
    /\ Solution[22] = NewBoard(Moves[Top.i], Top.board)

\* the boards of the open calls of search, outermost first
StackBoards == [k \in 1..Len(stack) |-> stack[k].board]

\* C17: the board of the call at nesting depth d holds exactly d pegs; no
\* board occurs twice on the call stack, the depth never exceeds 32, no board
\* with 33 pegs is produced, and no move is legal on a board with 32 pegs
C17_DepthEqualsPegs ==
    /\ \A d \in 1..Len(stack) : Pegs(StackBoards[d]) = d
    /\ \A i, j \in 1..Len(stack) : i # j => StackBoards[i] # StackBoards[j]
    /\ Len(stack) <= 32
    /\ \A b \in seenBoards : Pegs(b) <= 32
    /\ \A k \in 1..Len(invoked) : Pegs(invoked[k]) <= 32
    /\ pc \in {"seed", "print"} =>
          \A c \in VALID_BOARD_CELLS : \A k \in 1..Len(Moves) :
              ~Legal(Moves[k], VALID_BOARD_CELLS \ {c})
    /\ (Running /\ Pegs(Top.board) = 32) => ~Legal(Moves[Top.i], Top.board)

\* the deepest possible call: depth 32 on a board with 32 pegs that is not
\* INITIAL_BOARD
C17_Witness ==
    /\ Running
    /\ Len(stack) = 32
    /\ Pegs(Top.board) = 32
    /\ Top.board # INITIAL_BOARD

\* the boards that agree with board outside the three cells of move
LocalBoards(move, board) ==
    { BitOr(board \ move.all, s) : s \in SUBSET move.all }

\* the effect of a legal move: board ^ all = (board &^ after) | before, the
\* landing cell is cleared, the two other cells are set, the rest is kept,
\* one peg more
XorIsJump(move, board) ==
    LET newBoard == NewBoard(move, board)
    IN  /\ newBoard = BitOr(board \ move.after, move.before)
        /\ BitAnd(newBoard, move.after) = Zero
        /\ BitAnd(newBoard, move.before) = move.before
        /\ newBoard \ move.all = board \ move.all
        /\ Pegs(newBoard) = Pegs(board) + 1

\* C18: for every move of the table and every board that passes its legality
\* test, board XOR all is the board with the landing cell cleared and the two
\* vacated cells set, one peg more. Checked at the start of every call of
\* search for the board of the call and all boards that differ from it in
\* the three cells of the move only
C18_XorAppliesReverseMove ==
    (Running /\ Top.i = 1) =>
        \A k \in 1..Len(Moves) : \A b \in LocalBoards(Moves[k], Top.board) :
            Legal(Moves[k], b) => XorIsJump(Moves[k], b)

\* a call has just started and some move is legal on its board
C18_Witness ==
    /\ Running /\ Top.i = 1 /\ Len(stack) > 5
    /\ \E k \in 1..Len(Moves) :
          /\ Legal(Moves[k], Top.board)
          /\ Pegs(NewBoard(Moves[k], Top.board)) = Len(stack) + 1

\* the board the call at depth k gets from the move at its current index
BoardAtIndex(k) == NewBoard(Moves[stack[k].i], stack[k].board)

\* C19: within a call the moves are tested in ascending index, one by one
\* from the first: the index of an open call only ever grows by one, only
\* in the innermost call, and only past a move that is illegal or leads to a
\* board in seenBoards (already seen, or searched without success); a call
\* returns true at the index of a legal move whose board is INITIAL_BOARD or
\* was searched with success, after which no index moves and seenBoards is
\* left alone; a call returns false only when all 76 moves are behind it
C19_AscendingFirstSuccess ==
    /\ [][/\ \A k \in 1..Len(stack) : k <= Len(stack') =>
                /\ stack'[k].board = stack[k].board
                /\ stack'[k].i \in {stack[k].i, stack[k].i + 1}
                /\ stack'[k].i # stack[k].i =>
                      /\ k = Len(stack) /\ Len(stack') = Len(stack)
                      /\ ret' = "none"
                      /\ \/ ~Legal(Moves[stack[k].i], stack[k].board)
                         \/ BoardAtIndex(k) \in seenBoards
          /\ Len(stack') > Len(stack) =>
                /\ Len(stack') = Len(stack) + 1
                /\ stack'[Len(stack')].i = 1
          /\ (Len(stack') < Len(stack) /\ ret' = "false") =>
                /\ Len(Moves) = 76
                /\ Top.i = Len(Moves) + 1
          /\ (Len(stack') < Len(stack) /\ ret' = "true") =>
                /\ Top.i \in 1..Len(Moves)
                /\ Legal(Moves[Top.i], Top.board)
                /\ BoardAtIndex(Len(stack)) \in seenBoards'
                /\ BoardAtIndex(Len(stack)) = Solution[Len(Solution)]
                /\ \/ BoardAtIndex(Len(stack)) = INITIAL_BOARD
                   \/ ret = "true"
          /\ ret = "true" =>
                /\ seenBoards' = seenBoards
                /\ Len(stack') <= Len(stack)]_vars
    /\ [](\A k \in 1..Len(stack) :
            /\ stack[k].i \in 1..(Len(Moves) + 1)
            /\ k < Len(stack) =>
                  /\ stack[k].i <= Len(Moves)
                  /\ Legal(Moves[stack[k].i], stack[k].board)
                  /\ BoardAtIndex(k) = stack[k+1].board)

\* a call is about to return true at an index greater than ten, with an
\* earlier legal move that did not succeed
C19_Witness ==
    /\ ret = "true" /\ stack # << >>
    /\ Top.i > 10
    /\ \E j \in 1..(Top.i - 1) :
          /\ Legal(Moves[j], Top.board)
          /\ NewBoard(Moves[j], Top.board) \in seenBoards

\* C20: a call of search that is made while INITIAL_BOARD is in seenBoards
\* (every call of a second top-level search after a successful first one)
\* returns, returns false, and leaves Solution as it was at the call
C20_RerunReturnsFalse ==
    /\ [][(Len(stack') < Len(stack) /\ Top.marked) =>
              /\ ret' = "false"
              /\ Solution' = Solution
              /\ Solution' = Top.entry]_vars
    /\ [](\A k \in 1..Len(stack) : stack[k].marked =>
              /\ INITIAL_BOARD \in seenBoards
              /\ Solution = stack[k].entry
              /\ ret # "true")
    /\ ((stack # << >> /\ stack[1].marked) ~>
            (pc = "print" /\ stack = << >> /\ ret = "false"))

\* the second call has searched boards of its own, has returned false, and
\* Solution is the solution of the first call
C20_Witness ==
    /\ pc = "print" /\ ret = "false"
    /\ INITIAL_BOARD \in seenBoards
    /\ \E k \in 2..Len(invoked) :
          /\ invoked[k] \in { Solution[j] : j \in 1..Len(Solution) }
          /\ Len(invoked) > k + 4
    /\ Len(Solution) = 32 /\ Solution[32] = GOAL_BOARD

\* C21: from the call of search(GOAL_BOARD) until it has returned, Moves keeps
\* its contents and its order; of the package variables a step of search
\* changes only seenBoards and Solution
C21_MovesReadOnlyInSearch ==
    [][(pc \in {"call", "search"}) =>
          /\ Moves' = Moves
          /\ Len(Moves') = 76
          /\ \A k \in 1..Len(Moves) : Moves'[k] = Moves[k]
          /\ rnd' = rnd
          /\ gi' = gi]_vars

\* the search is under way, calls have failed and boards were marked, and
\* the table is the shuffled one
C21_Witness ==
    /\ pc = "search" /\ ret = "false"
    /\ Len(invoked) > 30
    /\ Len(Moves) = 76
    /\ Moves[1].after # {2}

\* number of groups of at most 16 boards
Groups(n) == (n + 15) \div 16

\* the text the loop is to write for the boards of Solution: per group of 16
\* consecutive boards seven lines, line m holding row m of each board of the
\* group in index order, and then the rule
ExpectedOut ==
    [j \in 1..(8 * Groups(Len(Solution))) |->
        LET g == (j - 1) \div 8
            m == (j - 1) % 8
            size == IF 16 * g + 16 <= Len(Solution)
                    THEN 16 ELSE Len(Solution) - 16 * g
        IN  IF m = 7 THEN RuleLine
            ELSE [kind |-> "row",
                  cells |-> [c \in 1..size |-> Printed(16 * g + c - 1, m)]]]

====
